---- MODULE Spec2Model ----
(***************************************************************************)
(* Model of solve/common.py: the directory resolver, the tariff loader,    *)
(* the product-code filter and the revenue formula.                        *)
(*                                                                         *)
(* Strings whose characters matter (file stems, product codes) are         *)
(* sequences of one-character strings.  A filesystem path is a record      *)
(* [abs, parts] as pathlib sees it.                                        *)
(***************************************************************************)
EXTENDS Integers, Sequences, FiniteSets, TLC

VARIABLES
    pc,          \* position in the running call
    user_dir,    \* load_tariff_data's data_dir argument
    force_sep,   \* load_tariff_data's force_sep argument
    fs,          \* the filesystem: each directory missing, without *.txt, or with *.txt
    data_dir,    \* the directory _resolve_data_dir returned
    err,         \* the exception the call raised, if any
    todo,        \* the files of sorted(data_dir.glob("*.txt")) still to load
    path,        \* the file being loaded
    first_line,  \* its first line, as its comma and pipe counts
    sep_guess,   \* the delimiter of the structured attempts
    enc,         \* index of the loop "for enc in (utf-8, latin1)"
    attempts,    \* the read_csv calls made for the current file, in order
    df,          \* the table parsed from the current file
    frames,      \* the per-file tables appended so far
    result,      \* the table load_tariff_data returned
    codes,       \* filter_tariffs' codes argument
    filtered,    \* the table filter_tariffs returned
    fn_args,     \* the arguments of a pure function under check
    fn_ret       \* its return value

vars == << pc, user_dir, force_sep, fs, data_dir, err, todo, path, first_line,
           sep_guess, enc, attempts, df, frames, result, codes, filtered,
           fn_args, fn_ret >>

\* An optional value is << >> (Python's None, pandas' NA) or << v >>.
None == << >>
Some(v) == << v >>
IsNone(o) == o = << >>
Get(o) == o[1]

\* force_sep = None
NoSep == "None"

(***************************************************************************)
(* Bounds of the model.                                                    *)
(***************************************************************************)
MaxFiles == 2    \* files in the resolved directory
MaxRows == 1     \* rows per file
MaxCount == 1    \* commas, and pipes, in a first line
MaxLen == 3      \* characters of an enumerated raw product code
MaxVal == 2      \* magnitude of the revenue formula's arguments

(***************************************************************************)
(* pathlib.Path                                                            *)
(***************************************************************************)
AbsPath(parts) == [abs |-> TRUE, parts |-> parts]
RelPath(parts) == [abs |-> FALSE, parts |-> parts]

IsAbsolute(p) == p.abs

\* p.parent: the root and "." are their own parents
Parent(p) ==
    IF p.parts = << >> THEN p
    ELSE [abs |-> p.abs, parts |-> SubSeq(p.parts, 1, Len(p.parts) - 1)]

\* len(p.parents)
NumParents(p) == Len(p.parts)

\* p / q
Join(p, q) == IF q.abs THEN q ELSE [abs |-> p.abs, parts |-> p.parts \o q.parts]

DataName == RelPath(<< "data" >>)

\* Path.cwd(): the repository root
Cwd == AbsPath(<< "r" >>)

\* Path(__file__).resolve().parent: the solve/ package of the repository
FileDir == AbsPath(<< "r", "solve" >>)

\* the directory a path names on disk
Phys(p) == IF p.abs THEN p ELSE Join(Cwd, p)

UserDirs ==
    { DataName, AbsPath(<< "r", "x" >>), AbsPath(<< "data" >>) }

PhysDirs ==
    { AbsPath(<< "r", "data" >>), AbsPath(<< "data" >>),
      AbsPath(<< "r", "solve", "data" >>), AbsPath(<< "r", "x" >>) }

DirStates == { "missing", "empty", "txt" }

Exists(c) == Phys(c) \in DOMAIN fs /\ fs[Phys(c)] # "missing"

HasTxt(c) == Phys(c) \in DOMAIN fs /\ fs[Phys(c)] = "txt"

(***************************************************************************)
(* _resolve_data_dir                                                       *)
(***************************************************************************)
Candidates(user_path) ==
    IF IsAbsolute(user_path)
    THEN << user_path, Join(Parent(user_path), DataName) >>
         \o (IF NumParents(user_path) > 1
             THEN << Join(Parent(Parent(user_path)), DataName) >>
             ELSE << >>)
    ELSE << user_path,
            Join(Cwd, user_path),
            Join(Parent(Cwd), user_path),
            Join(FileDir, user_path),
            Join(Parent(FileDir), user_path),
            Join(Parent(FileDir), DataName) >>

\* list(dict.fromkeys(candidates)): first occurrences, in order
RECURSIVE Dedup(_)
Dedup(s) ==
    IF s = << >> THEN << >>
    ELSE LET front == Dedup(SubSeq(s, 1, Len(s) - 1))
             last == s[Len(s)]
         IN IF \E i \in 1..Len(front) : front[i] = last
            THEN front
            ELSE Append(front, last)

ExistsOnly(cand) == Exists(cand)

Qualifies(cand) == Exists(cand) /\ HasTxt(cand)

FirstCandidateOnly(cands) ==
    IF cands # << >> /\ Exists(cands[1]) /\ HasTxt(cands[1])
    THEN Some(cands[1])
    ELSE None

\* the for loop of _resolve_data_dir over the sequence cands
RECURSIVE FirstQualifying(_)
FirstQualifying(cands) ==
    IF cands = << >> THEN None
    ELSE IF Qualifies(cands[1]) THEN Some(cands[1])
    ELSE FirstQualifying(Tail(cands))

\* an exception: its class, its message, and the paths the message names
Exception(type, msg, paths) == [type |-> type, msg |-> msg, paths |-> paths]

\* raise FileNotFoundError(... among: candidates)
NotFound(candidates) ==
    Exception("FileNotFoundError", "Could not find data directory with txt files among", candidates)

(***************************************************************************)
(* Character strings                                                       *)
(***************************************************************************)
Digits == << "0", "1", "2", "3", "4", "5", "6", "7", "8", "9" >>

IsDigit(c) == \E d \in 1..Len(Digits) : Digits[d] = c

DigitValue(c) == (CHOOSE d \in 1..Len(Digits) : Digits[d] = c) - 1

AllDigits(s) == \A i \in 1..Len(s) : IsDigit(s[i])

\* str(n) of an integer n >= 0
RECURSIVE DecStr(_)
DecStr(n) ==
    IF n < 10 THEN << Digits[n + 1] >>
    ELSE Append(DecStr(n \div 10), Digits[(n % 10) + 1])

\* the number a string of digits writes
RECURSIVE DecValue(_)
DecValue(s) ==
    IF s = << >> THEN 0
    ELSE 10 * DecValue(SubSeq(s, 1, Len(s) - 1)) + DigitValue(s[Len(s)])

\* whether pattern pat, a literal string, matches s at position i
MatchAt(s, i, pat) ==
    /\ i + Len(pat) - 1 <= Len(s)
    /\ SubSeq(s, i, i + Len(pat) - 1) = pat

\* a cell of a parsed column: an integer, a float of integral value, or text
IntCell(n) == [kind |-> "int", n |-> n, s |-> << >>]
FloatCell(n) == [kind |-> "float", n |-> n, s |-> << >>]
StrCell(s) == [kind |-> "str", n |-> 0, s |-> s]

\* .astype(str) of a cell, and str(code) of a supplied code
AsStr(cell) ==
    CASE cell.kind = "int" -> DecStr(cell.n)
      [] cell.kind = "float" -> DecStr(cell.n) \o << ".", "0" >>
      [] OTHER -> cell.s

(***************************************************************************)
(* load_tariff_data: source year                                           *)
(***************************************************************************)
\* the two alternatives of r"(20\\d{2}|201\\d)": in a raw string "\\" is the
\* regular expression of one literal backslash, and d a literal letter
YearAlternatives ==
    << << "2", "0", "\\", "d", "d" >>, << "2", "0", "1", "\\", "d" >> >>

\* re.search(...): the leftmost match, the first alternative preferred
YearSearch(stem) ==
    LET hits == { i \in 1..Len(stem) :
                    \E a \in 1..Len(YearAlternatives) :
                        MatchAt(stem, i, YearAlternatives[a]) }
    IN IF hits = { } THEN None
       ELSE LET i == CHOOSE k \in hits : \A j \in hits : k <= j
                a == CHOOSE k \in 1..Len(YearAlternatives) :
                        /\ MatchAt(stem, i, YearAlternatives[k])
                        /\ \A j \in 1..(k - 1) : ~MatchAt(stem, i, YearAlternatives[j])
            IN Some(YearAlternatives[a])

\* int(text): a value, or None where int raises ValueError
IntOf(text) ==
    IF text # << >> /\ AllDigits(text) THEN Some(DecValue(text)) ELSE None

(***************************************************************************)
(* load_tariff_data: product code normalization                            *)
(***************************************************************************)
HtsWidth == 8

\* .str.replace(r"\\.0$", "", regex=True): a backslash, any character and a
\* 0 at the end of the string are removed
ReplaceTrailing(s) ==
    LET n == Len(s)
    IN IF n >= 3 /\ s[n - 2] = "\\" /\ s[n] = "0"
       THEN SubSeq(s, 1, n - 3)
       ELSE s

\* .str.replace(r"\\D", "", regex=True): every backslash followed by the
\* letter D is removed, scanning from the left
RECURSIVE ReplaceNonDigit(_)
ReplaceNonDigit(s) ==
    IF Len(s) < 2 THEN s
    ELSE IF s[1] = "\\" /\ s[2] = "D" THEN ReplaceNonDigit(SubSeq(s, 3, Len(s)))
    ELSE << s[1] >> \o ReplaceNonDigit(Tail(s))

Zeros(k) == [i \in 1..k |-> "0"]

\* .str.zfill(width) on strings without a leading sign
ZFill(s, width) ==
    IF Len(s) >= width THEN s ELSE Zeros(width - Len(s)) \o s

NormalizeHts8(cell) ==
    ZFill(ReplaceNonDigit(ReplaceTrailing(AsStr(cell))), HtsWidth)

(***************************************************************************)
(* filter_tariffs                                                          *)
(***************************************************************************)
\* .replace(".", "")
RemoveDots(s) == SelectSeq(s, LAMBDA c : c # ".")

\* str.zfill(width): the zeros go after a leading sign
PyZFill(s, width) ==
    IF Len(s) >= width THEN s
    ELSE IF s # << >> /\ s[1] \in { "+", "-" }
         THEN << s[1] >> \o Zeros(width - Len(s)) \o Tail(s)
         ELSE Zeros(width - Len(s)) \o s

CodesNormalized(cs) == { PyZFill(RemoveDots(AsStr(code)), HtsWidth) : code \in cs }

\* df[df["hts8"].isin(codes_normalized)].copy()
FilterRows(table, cs) ==
    SelectSeq(table, LAMBDA row : row.hts8 \in CodesNormalized(cs))

(***************************************************************************)
(* laffer_revenue                                                          *)
(***************************************************************************)
Max(a, b) == IF a >= b THEN a ELSE b

LafferUnclamped(import_value, rate, elasticity) ==
    (import_value * (1 + elasticity * rate)) * rate

LafferRevenue(import_value, rate, elasticity) ==
    LET adjusted_import == import_value * (1 + elasticity * rate)
    IN Max(adjusted_import, 0) * rate

(***************************************************************************)
(* The inputs of the model                                                 *)
(***************************************************************************)
\* file stems, in the order sorted() gives their paths
SortedStems ==
    << << "2", "0", "\\", "d", "d" >>,
       << "t" >>,
       << "t", "2", "0", "2", "1" >> >>

Stems == { SortedStems[i] : i \in 1..Len(SortedStems) }

\* the directory listings: at least one *.txt file
Listings == { L \in SUBSET Stems : L # { } /\ Cardinality(L) <= MaxFiles }

\* sorted(data_dir.glob("*.txt"))
SortedListing(L) == SelectSeq(SortedStems, LAMBDA stem : stem \in L)

TxtSuffix == << ".", "t", "x", "t" >>

Delims == { ",", "|" }

ForceSeps == { NoSep, "" } \cup Delims

Encodings == << "utf-8", "latin1" >>

\* the product codes the files hold
RowCells ==
    { StrCell(<< "1", "2", "3", "4", ".", "5", "6", ".", "7", "8" >>),
      IntCell(1234567) }

RECURSIVE SeqsUpTo(_, _)
SeqsUpTo(S, n) ==
    IF n = 0 THEN { << >> }
    ELSE LET shorter == SeqsUpTo(S, n - 1)
         IN shorter \cup { Append(q, x) : q \in shorter, x \in S }

\* the product codes a caller passes to filter_tariffs
SuppliedCodes ==
    { StrCell(<< "1", "2", "3", "4", ".", "5", "6", ".", "7", "8" >>),
      StrCell(<< "1", "2", "3", "4", "5", "6", "7" >>) }

\* the raw codes the normalization is checked on: every short string of the
\* alphabet, and the numeric, punctuated, short and long codes
CodeAlphabet == { "0", "1", ".", "\\", "D" }

NormCells ==
    { StrCell(q) : q \in SeqsUpTo(CodeAlphabet, MaxLen) }
    \cup RowCells
    \cup { FloatCell(1234567), IntCell(123456789), IntCell(7), FloatCell(0),
           StrCell(<< "1", "2", "3", "4", "-", "5", "6" >>) }

(***************************************************************************)
(* load_tariff_data                                                        *)
(***************************************************************************)
FirstLineOnly(forced, line) == IF line.commas >= line.pipes THEN "," ELSE "|"

\* force_sep or ("," if first_line.count(",") >= first_line.count("|") else "|")
SepGuess(forced, line) ==
    IF forced # NoSep /\ forced # ""
    THEN forced
    ELSE IF line.commas >= line.pipes THEN "," ELSE "|"

Attempt(kind, encoding, sep, ok) ==
    [kind |-> kind, enc |-> encoding, sep |-> sep, ok |-> ok]

\* a parsed table, as the delimiter it was split on; its hts8 column is
\* drawn where line 88 reads it
Table(sep) == [sep |-> sep]

\* the hts8 column of a parsed table: absent, or its cells
Column(has_hts8, cells) == [has_hts8 |-> has_hts8, cells |-> cells]

Hts8Columns ==
    { Column(TRUE, cells) : cells \in SeqsUpTo(RowCells, MaxRows) }
    \cup { Column(FALSE, << >>) }

NoSniffFallback(e) ==
    IF e < Len(Encodings)
    THEN [pc |-> "try_read", enc |-> e + 1]
    ELSE [pc |-> "after_loop", enc |-> e]

\* the except clause of the structured attempt: sniff under the same encoding
AfterTryFail(e) == [pc |-> "sniff", enc |-> e]

\* "continue": the next encoding, or the end of the loop
AfterSniffFail(e) ==
    IF e < Len(Encodings)
    THEN [pc |-> "try_read", enc |-> e + 1]
    ELSE [pc |-> "after_loop", enc |-> e]

FilePath(dir, stem) == [dir |-> dir, name |-> stem \o TxtSuffix]

SkipFile(dir, stem) == [pc |-> "loop", err |-> None]

\* if df is None: raise ValueError(f"Failed to parse {path}")
OnExhausted(dir, stem) ==
    [pc |-> "error",
     err |-> Some(Exception("ValueError", "Failed to parse", << FilePath(dir, stem) >>))]

\* the rows of one file after tagging and normalization
TaggedRows(stem, year, cells) ==
    [i \in 1..Len(cells) |->
        [source_file |-> stem \o TxtSuffix,
         source_year |-> year,
         raw |-> cells[i],
         hts8 |-> NormalizeHts8(cells[i])]]

\* pd.concat(frames, ignore_index=True)
RECURSIVE Concat(_)
Concat(fr) == IF fr = << >> THEN << >> ELSE Head(fr) \o Concat(Tail(fr))

NoLine == [commas |-> 0, pipes |-> 0]

LoaderIdle ==
    /\ data_dir = None
    /\ err = None
    /\ todo = << >>
    /\ path = << >>
    /\ first_line = NoLine
    /\ sep_guess = NoSep
    /\ enc = 1
    /\ attempts = << >>
    /\ df = None
    /\ frames = << >>
    /\ result = None
    /\ codes = { }
    /\ filtered = None

\* the filesystems a call on user_path can tell apart: the directories it
\* never looks at are left missing
FileSystems(user_path) ==
    LET candidates == Candidates(user_path)
        looked == { Phys(candidates[i]) : i \in 1..Len(candidates) }
    IN { f \in [PhysDirs -> DirStates] :
            \A d \in PhysDirs \ looked : f[d] = "missing" }

Init ==
    /\ pc = "start"
    /\ user_dir \in UserDirs
    /\ force_sep \in ForceSeps
    /\ fs \in FileSystems(user_dir)
    /\ LoaderIdle
    /\ fn_args = << >>
    /\ fn_ret = None

\* line 47: data_dir = _resolve_data_dir(data_dir)
Resolve ==
    /\ pc = "start"
    /\ LET candidates == Candidates(user_dir)
           hit == FirstQualifying(Dedup(candidates))
       IN IF IsNone(hit)
          THEN /\ pc' = "error"
               /\ err' = Some(NotFound(candidates))
               /\ data_dir' = data_dir
          ELSE /\ pc' = "list"
               /\ err' = err
               /\ data_dir' = hit
    /\ UNCHANGED << user_dir, force_sep, fs, todo, path, first_line, sep_guess,
                    enc, attempts, df, frames, result, codes, filtered,
                    fn_args, fn_ret >>

\* lines 48-49: frames = [], and the sorted listing of the directory
ListFiles ==
    /\ pc = "list"
    /\ \E L \in Listings : todo' = SortedListing(L)
    /\ frames' = << >>
    /\ pc' = "loop"
    /\ UNCHANGED << user_dir, force_sep, fs, data_dir, err, path, first_line,
                    sep_guess, enc, attempts, df, result, codes, filtered,
                    fn_args, fn_ret >>

\* lines 49-63: the next file, its first line, the delimiter guess
NextFile ==
    /\ pc = "loop"
    /\ todo # << >>
    /\ path' = Head(todo)
    /\ todo' = Tail(todo)
    /\ \E c \in 0..MaxCount, p \in 0..MaxCount :
        /\ first_line' = [commas |-> c, pipes |-> p]
        /\ sep_guess' = SepGuess(force_sep, [commas |-> c, pipes |-> p])
    /\ df' = None
    /\ enc' = 1
    /\ attempts' = << >>
    /\ pc' = "try_read"
    /\ UNCHANGED << user_dir, force_sep, fs, data_dir, err, frames, result,
                    codes, filtered, fn_args, fn_ret >>

\* lines 65-67: the structured attempt succeeds, break
TryReadOk ==
    /\ pc = "try_read"
    /\ df' = Some(Table(sep_guess))
    /\ attempts' = Append(attempts, Attempt("structured", Encodings[enc], sep_guess, TRUE))
    /\ pc' = "after_loop"
    /\ UNCHANGED << user_dir, force_sep, fs, data_dir, err, todo, path,
                    first_line, sep_guess, enc, frames, result, codes,
                    filtered, fn_args, fn_ret >>

\* lines 65-68: the structured attempt raises a decode, parser or value error
TryReadFail ==
    /\ pc = "try_read"
    /\ attempts' = Append(attempts, Attempt("structured", Encodings[enc], sep_guess, FALSE))
    /\ pc' = AfterTryFail(enc).pc
    /\ enc' = AfterTryFail(enc).enc
    /\ UNCHANGED << user_dir, force_sep, fs, data_dir, err, todo, path,
                    first_line, sep_guess, df, frames, result, codes,
                    filtered, fn_args, fn_ret >>

\* lines 69-78: the sniffing attempt succeeds on a delimiter it detected, break
SniffOk ==
    /\ pc = "sniff"
    /\ \E d \in Delims : df' = Some(Table(d))
    /\ attempts' = Append(attempts, Attempt("sniff", Encodings[enc], "auto", TRUE))
    /\ pc' = "after_loop"
    /\ UNCHANGED << user_dir, force_sep, fs, data_dir, err, todo, path,
                    first_line, sep_guess, enc, frames, result, codes,
                    filtered, fn_args, fn_ret >>

\* lines 79-80: the sniffing attempt raises, continue
SniffFail ==
    /\ pc = "sniff"
    /\ attempts' = Append(attempts, Attempt("sniff", Encodings[enc], "auto", FALSE))
    /\ pc' = AfterSniffFail(enc).pc
    /\ enc' = AfterSniffFail(enc).enc
    /\ UNCHANGED << user_dir, force_sep, fs, data_dir, err, todo, path,
                    first_line, sep_guess, df, frames, result, codes,
                    filtered, fn_args, fn_ret >>

\* lines 81-82: no attempt produced a table
RaiseParseFailure ==
    /\ pc = "after_loop"
    /\ IsNone(df)
    /\ pc' = OnExhausted(Get(data_dir), path).pc
    /\ err' = OnExhausted(Get(data_dir), path).err
    /\ UNCHANGED << user_dir, force_sep, fs, data_dir, todo, path, first_line,
                    sep_guess, enc, attempts, df, frames, result, codes,
                    filtered, fn_args, fn_ret >>

\* The names bound inside one iteration of the file loop (path, first_line,
\* sep_guess, enc, df) are rebound at the top of the next one and read by
\* nothing after the loop; the model clears them, and the record of the
\* file's attempts, when an iteration ends.
IterationEnds ==
    /\ path' = << >>
    /\ first_line' = NoLine
    /\ sep_guess' = NoSep
    /\ enc' = 1
    /\ attempts' = << >>
    /\ df' = None

IterationStays == UNCHANGED << path, first_line, sep_guess, enc, attempts, df >>

\* lines 83-101: tag the rows, normalize the codes, append the frame
TagAndNormalize ==
    /\ pc = "after_loop"
    /\ ~IsNone(df)
    /\ LET year_match == YearSearch(path)
           year == IF IsNone(year_match) THEN None ELSE IntOf(Get(year_match))
       IN IF ~IsNone(year_match) /\ IsNone(year)
          THEN \* line 85: int() of the matched text raises
               /\ pc' = "error"
               /\ err' = Some(Exception("ValueError", "invalid literal for int()", << >>))
               /\ frames' = frames
          ELSE \E column \in Hts8Columns :
               IF ~column.has_hts8
               THEN \* line 88: the file has no hts8 column
                    /\ pc' = "error"
                    /\ err' = Some(Exception("KeyError", "hts8", << >>))
                    /\ frames' = frames
               ELSE /\ pc' = "loop"
                    /\ err' = err
                    /\ frames' = Append(frames, TaggedRows(path, year, column.cells))
    /\ IF pc' = "loop" THEN IterationEnds ELSE IterationStays
    /\ UNCHANGED << user_dir, force_sep, fs, data_dir, todo, result, codes,
                    filtered, fn_args, fn_ret >>

\* line 102: return pd.concat(frames, ignore_index=True)
ReturnTable ==
    /\ pc = "loop"
    /\ todo = << >>
    /\ result' = Some(Concat(frames))
    /\ pc' = "done"
    /\ UNCHANGED << user_dir, force_sep, fs, data_dir, err, todo, path,
                    first_line, sep_guess, enc, attempts, df, frames, codes,
                    filtered, fn_args, fn_ret >>

\* lines 105-107: filter_tariffs on the loaded table
FilterTariffs ==
    /\ pc = "done"
    /\ \E cs \in SUBSET SuppliedCodes :
        /\ codes' = cs
        /\ filtered' = Some(FilterRows(Get(result), cs))
    /\ pc' = "filtered"
    /\ UNCHANGED << user_dir, force_sep, fs, data_dir, err, todo, path,
                    first_line, sep_guess, enc, attempts, df, frames, result,
                    fn_args, fn_ret >>

Next ==
    \/ Resolve
    \/ ListFiles
    \/ NextFile
    \/ TryReadOk
    \/ TryReadFail
    \/ SniffOk
    \/ SniffFail
    \/ RaiseParseFailure
    \/ TagAndNormalize
    \/ ReturnTable
    \/ FilterTariffs

Spec == Init /\ [][Next]_vars

(***************************************************************************)
(* The normalization alone, on every raw code of NormCells                 *)
(***************************************************************************)
InitNorm ==
    /\ pc = "norm"
    /\ user_dir = DataName
    /\ force_sep = NoSep
    /\ fs = [d \in PhysDirs |-> "missing"]
    /\ LoaderIdle
    /\ fn_args \in { << cell >> : cell \in NormCells }
    /\ fn_ret = None

\* lines 87-93 on one cell of the hts8 column
NormalizeCell ==
    /\ pc = "norm"
    /\ fn_ret' = Some(NormalizeHts8(fn_args[1]))
    /\ pc' = "returned"
    /\ UNCHANGED << user_dir, force_sep, fs, data_dir, err, todo, path,
                    first_line, sep_guess, enc, attempts, df, frames, result,
                    codes, filtered, fn_args >>

NextNorm == NormalizeCell

SpecNorm == InitNorm /\ [][NextNorm]_vars

(***************************************************************************)
(* laffer_revenue alone, on whole-number arguments                         *)
(***************************************************************************)
Values == (0 - MaxVal)..MaxVal

InitLaffer ==
    /\ pc = "laffer"
    /\ user_dir = DataName
    /\ force_sep = NoSep
    /\ fs = [d \in PhysDirs |-> "missing"]
    /\ LoaderIdle
    /\ fn_args \in { << iv, r, e >> : iv \in Values, r \in Values, e \in Values }
    /\ fn_ret = None

\* lines 122-132
Laffer ==
    /\ pc = "laffer"
    /\ fn_ret' = Some(LafferRevenue(fn_args[1], fn_args[2], fn_args[3]))
    /\ pc' = "returned"
    /\ UNCHANGED << user_dir, force_sep, fs, data_dir, err, todo, path,
                    first_line, sep_guess, enc, attempts, df, frames, result,
                    codes, filtered, fn_args >>

NextLaffer == Laffer

SpecLaffer == InitLaffer /\ [][NextLaffer]_vars

(***************************************************************************)
(* The specified behaviour the claims compare the code with                *)
(***************************************************************************)
\* a trailing ".0" removed
StripDotZero(s) ==
    LET n == Len(s)
    IN IF n >= 2 /\ s[n - 1] = "." /\ s[n] = "0" THEN SubSeq(s, 1, n - 2) ELSE s

\* all non-digit characters removed
KeepDigits(s) == SelectSeq(s, IsDigit)

\* string, trailing ".0" removed, digits kept, left-padded with zeros
SpecifiedCode(cell) == ZFill(KeepDigits(StripDotZero(AsStr(cell))), HtsWidth)

\* the four-digit year between 2010 and 2029 a file name contains, if any
SpecifiedYear(name) ==
    LET hits == { i \in 1..Len(name) :
                    /\ i + 3 <= Len(name)
                    /\ name[i] = "2"
                    /\ name[i + 1] = "0"
                    /\ name[i + 2] \in { "1", "2" }
                    /\ IsDigit(name[i + 3]) }
    IN IF hits = { } THEN None
       ELSE LET i == CHOOSE k \in hits : \A j \in hits : k <= j
            IN Some(DecValue(SubSeq(name, i, i + 3)))

\* the deduplicated candidates of the call
Tried == Dedup(Candidates(user_dir))

\* the positions in tried of the directories that exist and hold a *.txt file
QualifyingIn(tried) == { i \in 1..Len(tried) : Exists(tried[i]) /\ HasTxt(tried[i]) }

\* the earliest of the positions q in tried
EarliestIn(tried, q) == tried[CHOOSE i \in q : \A j \in q : i <= j]

RaisedNotFound ==
    /\ pc = "error"
    /\ ~IsNone(err)
    /\ Get(err).type = "FileNotFoundError"

\* the (kind, encoding) pairs of the attempts made on the current file
AttemptKinds == [i \in 1..Len(attempts) |-> << attempts[i].kind, attempts[i].enc >>]

AllFourAttemptsFailed ==
    /\ { AttemptKinds[i] : i \in 1..Len(attempts) }
            = { << k, Encodings[e] >> : k \in { "structured", "sniff" }, e \in 1..Len(Encodings) }
    /\ \A i \in 1..Len(attempts) : ~attempts[i].ok

IsPrefix(p, q) == Len(p) <= Len(q) /\ SubSeq(q, 1, Len(p)) = p

\* the order the code makes the attempts in
InterleavedOrder ==
    << << "structured", "utf-8" >>, << "sniff", "utf-8" >>,
       << "structured", "latin1" >>, << "sniff", "latin1" >> >>

\* the order with both structured attempts before any sniffing
StructuredFirstOrder ==
    << << "structured", "utf-8" >>, << "structured", "latin1" >>,
       << "sniff", "utf-8" >>, << "sniff", "latin1" >> >>

StopsAtFirstSuccess == \A i \in 1..(Len(attempts) - 1) : ~attempts[i].ok

\* the delimiter the first line alone selects
CountedDelimiter == IF first_line.commas >= first_line.pipes THEN "," ELSE "|"

Forced == force_sep # NoSep /\ force_sep # ""

LastAttempt == attempts[Len(attempts)]

(***************************************************************************)
(* Claims                                                                  *)
(***************************************************************************)

\* C1: after load_tariff_data returns, every row's hts8 is exactly 8
\* characters long and consists of digits only.
C1_LoadedCodesAreEightDigits ==
    pc = "done" =>
        \A i \in 1..Len(Get(result)) :
            /\ Len(Get(result)[i].hts8) = HtsWidth
            /\ AllDigits(Get(result)[i].hts8)

\* C2: the normalized code of every raw code is its string with a trailing
\* ".0" removed, all non-digits removed, left-padded with zeros to 8.
C2_NormalizedAsSpecified ==
    pc = "returned" => Get(fn_ret) = SpecifiedCode(fn_args[1])

\* C3: filter_tariffs returns exactly the rows whose normalized code is in
\* the set of normalized supplied codes, however the codes were formatted.
C3_FilterReturnsExactlyMatchingRows ==
    pc = "filtered" =>
        Get(filtered) =
            SelectSeq(Get(result),
                      LAMBDA row : SpecifiedCode(row.raw) \in { SpecifiedCode(c) : c \in codes })

\* C4: every row of a file carries the year 2010..2029 its file name
\* contains, as an integer, and a missing year when the name contains none.
C4_SourceYearFromFilename ==
    \A f \in 1..Len(frames) : \A r \in 1..Len(frames[f]) :
        frames[f][r].source_year = SpecifiedYear(frames[f][r].source_file)

\* C5 as stated: laffer_revenue is >= 0 for every import_value, rate and
\* elasticity, and 0 whenever the adjusted import volume would be negative.
C5_RevenueNeverNegative ==
    pc = "returned" =>
        /\ Get(fn_ret) >= 0
        /\ (fn_args[1] * (1 + fn_args[3] * fn_args[2]) < 0 => Get(fn_ret) = 0)

\* C5 as amended: laffer_revenue is >= 0 whenever rate >= 0, and 0 whenever
\* the adjusted import volume would be negative; with a negative rate and a
\* positive adjusted import volume it is negative.
C5_RevenueNonNegativeForNonNegativeRate ==
    pc = "returned" =>
        LET volume == fn_args[1] * (1 + fn_args[3] * fn_args[2])
        IN /\ (fn_args[2] >= 0 => Get(fn_ret) >= 0)
           /\ (volume < 0 => Get(fn_ret) = 0)
           /\ (fn_args[2] < 0 /\ volume > 0 => Get(fn_ret) < 0)

C5_Witness ==
    /\ pc = "returned"
    /\ fn_args[2] > 0
    /\ fn_args[1] * (1 + fn_args[3] * fn_args[2]) < 0
    /\ Get(fn_ret) = 0

\* C6 as stated: load_tariff_data on a directory that contains no *.txt
\* file fails with the directory-not-found condition and returns no table.
C6_NoTxtAlwaysFails ==
    (pc # "start" /\ ~HasTxt(user_dir)) => (RaisedNotFound /\ IsNone(result))

\* C6 as amended: load_tariff_data on a directory that contains no *.txt
\* file fails with the directory-not-found condition, returning no table,
\* exactly when no other candidate directory exists with a *.txt file;
\* otherwise it loads from the earliest such candidate.
C6_NoTxtFailsUnlessFallbackQualifies ==
    (pc # "start" /\ ~HasTxt(user_dir)) =>
        LET tried == Tried
            q == QualifyingIn(tried)
        IN IF q = { }
           THEN RaisedNotFound /\ IsNone(data_dir) /\ IsNone(result)
           ELSE /\ ~RaisedNotFound
                /\ data_dir = Some(EarliestIn(tried, q))
                /\ Get(data_dir) # user_dir

C6_Witness ==
    /\ Exists(user_dir)
    /\ ~HasTxt(user_dir)
    /\ RaisedNotFound
    /\ IsNone(result)

\* C7: once every encoding/delimiter attempt on a file has failed, the load
\* has failed with the parse failure naming that file; no table is returned
\* and the file is not skipped, whatever the earlier files parsed to.
C7_ExhaustedFileAbortsLoad ==
    (AllFourAttemptsFailed /\ pc # "after_loop") =>
        /\ pc = "error"
        /\ err = Some(Exception("ValueError", "Failed to parse",
                                << [dir |-> Get(data_dir), name |-> path \o TxtSuffix] >>))
        /\ IsNone(result)
        /\ IsNone(filtered)

C7_Witness ==
    /\ AllFourAttemptsFailed
    /\ pc = "error"
    /\ frames # << >>
    /\ IsNone(result)

\* C8: _resolve_data_dir returns the earliest deduplicated candidate that
\* exists and contains a *.txt file, and raises the directory-not-found
\* condition, listing every candidate, if and only if no candidate qualifies.
C8_ResolvesEarliestQualifying ==
    pc # "start" =>
        LET tried == Tried
            q == QualifyingIn(tried)
        IN /\ (q = { } <=> RaisedNotFound)
           /\ (q = { } <=> IsNone(data_dir))
           /\ q # { } =>
                /\ data_dir = Some(EarliestIn(tried, q))
                /\ fs[Phys(Get(data_dir))] = "txt"
           /\ RaisedNotFound =>
                \A i \in 1..Len(tried) :
                    \E j \in 1..Len(Get(err).paths) : Get(err).paths[j] = tried[i]

C8_Witness ==
    /\ pc = "list"
    /\ LET tried == Tried
       IN \E i \in 2..Len(tried) :
            /\ data_dir = Some(tried[i])
            /\ \E j \in 1..(i - 1) : Exists(tried[j]) /\ ~HasTxt(tried[j])

\* C9 as stated: the attempts are structured UTF-8, structured Latin-1,
\* sniffing UTF-8, sniffing Latin-1, stopping at the first success; no
\* sniffing attempt precedes the failure of the structured Latin-1 attempt.
C9_StructuredAttemptsFirst ==
    /\ IsPrefix(AttemptKinds, StructuredFirstOrder)
    /\ StopsAtFirstSuccess

\* C9 as amended: the attempts are structured UTF-8, sniffing UTF-8,
\* structured Latin-1, sniffing Latin-1, stopping at the first success; a
\* sniffing attempt under an encoding directly follows the failed structured
\* attempt under the same encoding.
C9_AttemptsInterleavedByEncoding ==
    /\ IsPrefix(AttemptKinds, InterleavedOrder)
    /\ StopsAtFirstSuccess
    /\ pc \in { "try_read", "sniff" } =>
            /\ \A i \in 1..Len(attempts) : ~attempts[i].ok
            /\ InterleavedOrder[Len(attempts) + 1]
                    = << IF pc = "sniff" THEN "sniff" ELSE "structured", Encodings[enc] >>
    /\ (pc = "after_loop" /\ IsNone(df)) => Len(attempts) = Len(InterleavedOrder)
    /\ (pc = "after_loop" /\ ~IsNone(df)) => LastAttempt.ok

C9_Witness ==
    /\ Len(attempts) = 4
    /\ attempts[4].ok
    /\ attempts[2].kind = "sniff"
    /\ attempts[3].kind = "structured"
    /\ ~IsNone(df)

====
